---- MODULE Spec2Model ----
(***************************************************************************)
(* GrpcConnection (packages/firestore/src/platform_node/grpc_connection.ts) *)
(*                                                                         *)
(* Four parts of the connection are modelled, each with its own            *)
(* specification over the shared variables:                                *)
(*   SpecBridge    - the duplex stream returned by openStream              *)
(*   SpecStub      - the stub cache kept by ensureActiveStub               *)
(*   SpecRpc       - the promise returned by invokeRPC                     *)
(*   SpecStreaming - the promise returned by invokeStreamingRPC            *)
(***************************************************************************)
EXTENDS Integers, Sequences, FiniteSets, TLC

\* ------------------------------------------------------------------ bounds
MaxSends == 2
MaxData == 1
MaxTriggers == 2
MaxPost == 1
MaxCalls == 3
MaxCallbacks == 3
MaxStreamEvents == 3
MaxMultiSteps == 4

\* ------------------------------------------------------------ value domains
Msgs == {"m1"}
Resps == {"r1", "r2"}
RpcCodes == {1, 14}
ErrMessages == {"e1", "e2"}

\* grpc.ServiceError: the transport's error object
ServiceErrors == [code : RpcCodes, message : ErrMessages]

\* no ServiceError (the callback's err argument is absent)
NoServiceError == [code |-> 0, message |-> "-"]

\* mapCodeFromRpcCode (remote/rpc_error): transport status code -> domain kind
mapCodeFromRpcCode(c) ==
  CASE c = 1 -> "cancelled"
    [] c = 14 -> "unavailable"
    [] OTHER -> "unknown"

\* new FirestoreError(code, message)
FirestoreError(code, message) == [code |-> code, message |-> message]

\* close() called with no argument: err is undefined
NoError == [code |-> "undefined", message |-> "undefined"]

VARIABLES
  \* --- openStream closure state
  listeners,     \* events with a listener registered on grpcStream
  setup,         \* what openStream did with grpcStream and the timer, in order
  closed,        \* let closed
  openTimer,     \* the setTimeout(callOnOpen, 0) task is pending
  effects,       \* what the bridge did, in order: caller callbacks and
                 \* calls on grpcStream (write, end)
  nSend, nData, nTrig, nPost,   \* how many inputs of each sort have happened
  firstTrigger,  \* the first of close()/'end'/'error' that happened
  lastOp,        \* the last operation or event and how it returned
  \* --- GrpcConnection.cachedStub
  cachedStub,    \* CachedStub | null
  stubsBuilt,    \* number of `new Firestore(...)` that completed
  nCalls,
  lastCall,      \* the last ensureActiveStub call: its token and outcome
  \* --- invokeRPC
  rpcPromise,    \* the promise nodePromise returned
  rpcSettles,    \* how many times that promise changed state
  nCallbacks,    \* how many times the transport invoked the callback
  lastCallback,  \* the arguments of the last transport callback
  \* --- invokeStreamingRPC
  results,           \* const results = []
  responseDeferred,  \* new Deferred<Resp[]>()
  delivered,         \* the responses the stream emitted, in order
  streamLog,         \* the stream's events so far, in order
  lastStreamError,   \* the grpcError of the stream's last 'error' event
  \* --- several streams opened on one connection
  bridges,           \* per stream: its closure and what it did
  lastBridge,        \* the stream the last call or event was on (0: none)
  nMulti

bridgeVars == <<listeners, setup, closed, openTimer, effects, nSend, nData, nTrig,
                nPost, firstTrigger, lastOp>>
stubVars == <<cachedStub, stubsBuilt, nCalls, lastCall>>
rpcVars == <<rpcPromise, rpcSettles, nCallbacks, lastCallback>>
streamingVars == <<results, responseDeferred, delivered, streamLog,
                   lastStreamError>>
multiVars == <<bridges, lastBridge, nMulti>>
vars == <<bridgeVars, stubVars, rpcVars, streamingVars, multiVars>>

\* Each part of the connection leaves the other parts alone
BridgeOnly == UNCHANGED <<stubVars, rpcVars, streamingVars, multiVars>>
StubOnly == UNCHANGED <<bridgeVars, rpcVars, streamingVars, multiVars>>
RpcOnly == UNCHANGED <<bridgeVars, stubVars, streamingVars, multiVars>>
StreamingOnly == UNCHANGED <<bridgeVars, stubVars, rpcVars, multiVars>>
MultiOnly == UNCHANGED <<bridgeVars, rpcVars, streamingVars, nCalls, lastCall>>

\* ===================================================== duplex stream bridge

Effect(kind, msg, err) == [kind |-> kind, msg |-> msg, err |-> err]
OpenEffect == Effect("open", "-", NoError)
MessageEffect(m) == Effect("message", m, NoError)
CloseEffect(err) == Effect("close", "-", err)
WriteEffect(m) == Effect("write", m, NoError)
EndEffect == Effect("end", "-", NoError)

\* The closure state a handler reads and writes, and how the handler returned
Closure == [closed |-> closed, effects |-> effects, raised |-> "none"]

\* StreamBridge.callOnOpen / callOnMessage / callOnClose: hand the event to
\* the callback the caller registered
callOnOpen(s) == [s EXCEPT !.effects = Append(@, OpenEffect)]
callOnMessage(s, m) == [s EXCEPT !.effects = Append(@, MessageEffect(m))]
callOnClose(s, err) == [s EXCEPT !.effects = Append(@, CloseEffect(err))]

\* grpcStream.write(msg); `throws`: the transport rejects the payload
write(s, m, throws) ==
  IF throws THEN [s EXCEPT !.raised = "write"]
  ELSE [s EXCEPT !.effects = Append(@, WriteEffect(m))]

\* grpcStream.end()
end(s) == [s EXCEPT !.effects = Append(@, EndEffect)]

\* assert(closed, ...)
assert(s, cond) == IF cond THEN s ELSE [s EXCEPT !.raised = "assert"]

\* sendFn without its `closed` test
sendFn_unguarded(s, m, throws) == write(s, m, throws)

\* sendFn turning a failed write into a close
sendFn_closesOnThrow(s, m, throws) ==
  IF ~s.closed
  THEN IF throws THEN end(callOnClose([s EXCEPT !.closed = TRUE], NoError))
       ELSE write(s, m, throws)
  ELSE s

\* sendFn holding messages back until open was delivered
sendFn_afterOpen(s, m, throws) ==
  IF ~s.closed /\ \E i \in 1..Len(s.effects) : s.effects[i].kind = "open"
  THEN write(s, m, throws)
  ELSE s

\* sendFn
sendFn(s, m, throws) ==
  IF ~s.closed THEN write(s, m, throws) ELSE s

\* close, when the caller's close callback does not call back into the stream
closeInner(s, err) ==
  IF ~s.closed
  THEN end(callOnClose([s EXCEPT !.closed = TRUE], err))
  ELSE s

\* What the caller's close callback does with the stream while it runs
Nested == {"none", "close", "send"}
runNested(s, nested) ==
  CASE nested = "close" -> closeInner(s, NoError)
    [] nested = "send" -> sendFn(s, "m1", FALSE)
    [] OTHER -> s

\* close without its `closed` test
close_unguarded(s, err, nested) ==
  end(runNested(callOnClose([s EXCEPT !.closed = TRUE], err), nested))

\* close calling grpcStream.end() before the close notification
close_endFirst(s, err, nested) ==
  IF ~s.closed
  THEN runNested(callOnClose(end([s EXCEPT !.closed = TRUE]), err), nested)
  ELSE s

\* close setting `closed` only after the close notification and end()
close_lateFlag(s, err, nested) ==
  IF ~s.closed
  THEN [end(runNested(callOnClose(s, err), nested)) EXCEPT !.closed = TRUE]
  ELSE s

\* close never setting `closed`
close_noFlag(s, err, nested) ==
  IF ~s.closed
  THEN end(runNested(callOnClose(s, err), nested))
  ELSE s

\* close = (err) => { if (!closed) { closed = true; callOnClose; end } }
close(s, err, nested) ==
  IF ~s.closed
  THEN end(runNested(callOnClose([s EXCEPT !.closed = TRUE], err), nested))
  ELSE s

\* the 'data' listener without its `closed` test
onData_unguarded(s, m) == callOnMessage(s, m)

\* grpcStream.on('data')
onData(s, m) == IF ~s.closed THEN callOnMessage(s, m) ELSE s

\* grpcStream.on('end')
onEnd(s, nested) == close(s, NoError, nested)

\* the 'finish' listener treating the event as a close trigger
onFinish_closes(s) == closeInner(s, NoError)

\* grpcStream.on('finish'), grpcStream.on('status')
onFinish(s) == assert(s, s.closed)
onStatus(s) == assert(s, s.closed)

\* the 'error' listener calling close() without the error
onError_noError(s, grpcError, nested) == close(s, NoError, nested)

\* grpcStream.on('error')
onError(s, grpcError, nested) ==
  close(s, FirestoreError(mapCodeFromRpcCode(grpcError.code),
                          grpcError.message), nested)

AllListeners == {"data", "end", "finish", "error", "status"}

\* openStream's registrations and its setTimeout, in program order
SetupOrder ==
  <<"on:data", "on:end", "on:finish", "on:error", "on:status", "setTimeout">>

\* The handler's writes reach the closure; lastOp records the call
Commit(s, op, msg, grpcError, nested) ==
  /\ closed' = s.closed
  /\ effects' = s.effects
  /\ lastOp' = [op |-> op, raised |-> s.raised, msg |-> msg,
                grpcError |-> grpcError, nested |-> nested]

\* what the caller's close callback did in this call: it only runs when the
\* call finds the bridge not closed
Ran(nested) == IF closed THEN "none" ELSE nested

Trigger(kind) ==
  /\ nTrig < MaxTriggers
  /\ nTrig' = nTrig + 1
  /\ firstTrigger' = IF firstTrigger = "none" THEN kind ELSE firstTrigger

\* openStream calling callOnOpen itself instead of scheduling it
OpenStream_syncOpen ==
  /\ listeners = {}
  /\ listeners' = AllListeners
  /\ setup' = SetupOrder
  /\ openTimer' = FALSE
  /\ closed' = FALSE
  /\ effects' = <<OpenEffect>>
  /\ lastOp' = [op |-> "openStream", raised |-> "none", msg |-> "-",
                grpcError |-> NoServiceError, nested |-> "none"]
  /\ UNCHANGED <<nSend, nData, nTrig, nPost, firstTrigger>>
  /\ BridgeOnly

\* openStream: registers the listeners, schedules the open task, returns
OpenStream ==
  /\ listeners = {}
  /\ listeners' = AllListeners
  /\ setup' = SetupOrder
  /\ openTimer' = TRUE
  /\ closed' = FALSE
  /\ effects' = <<>>
  /\ lastOp' = [op |-> "openStream", raised |-> "none", msg |-> "-",
                grpcError |-> NoServiceError, nested |-> "none"]
  /\ UNCHANGED <<nSend, nData, nTrig, nPost, firstTrigger>>
  /\ BridgeOnly

\* stream.send(msg)
Send ==
  /\ listeners # {}
  /\ nSend < MaxSends
  /\ \E m \in Msgs, throws \in BOOLEAN : 
       Commit(sendFn(Closure, m, throws), "send", m, NoServiceError, "none")
  /\ nSend' = nSend + 1
  /\ UNCHANGED <<listeners, setup, openTimer, nData, nTrig, nPost, firstTrigger>>
  /\ BridgeOnly

\* stream.close()
Close ==
  /\ listeners # {}
  /\ Trigger("close")
  /\ \E nested \in Nested : 
       Commit(close(Closure, NoError, nested), "close", "-", NoServiceError,
              Ran(nested))
  /\ UNCHANGED <<listeners, setup, openTimer, nSend, nData, nPost>>
  /\ BridgeOnly

\* the transport emits 'data'
Data ==
  /\ "data" \in listeners
  /\ nData < MaxData
  /\ \E m \in Resps : Commit(onData(Closure, m), "data", m, NoServiceError,
                            "none")
  /\ nData' = nData + 1
  /\ UNCHANGED <<listeners, setup, openTimer, nSend, nTrig, nPost, firstTrigger>>
  /\ BridgeOnly

\* the transport emits 'end'
End ==
  /\ "end" \in listeners
  /\ Trigger("end")
  /\ \E nested \in Nested : 
       Commit(onEnd(Closure, nested), "end", "-", NoServiceError,
              Ran(nested))
  /\ UNCHANGED <<listeners, setup, openTimer, nSend, nData, nPost>>
  /\ BridgeOnly

\* the transport emits 'error'
Error ==
  /\ "error" \in listeners
  /\ Trigger("error")
  /\ \E e \in ServiceErrors, nested \in Nested :
       Commit(onError(Closure, e, nested), "error", "-", e, Ran(nested))
  /\ UNCHANGED <<listeners, setup, openTimer, nSend, nData, nPost>>
  /\ BridgeOnly

\* the transport emits 'finish'
Finish ==
  /\ "finish" \in listeners
  /\ nPost < MaxPost
  /\ Commit(onFinish(Closure), "finish", "-", NoServiceError, "none")
  /\ nPost' = nPost + 1
  /\ UNCHANGED <<listeners, setup, openTimer, nSend, nData, nTrig, firstTrigger>>
  /\ BridgeOnly

\* the transport emits 'status'
Status ==
  /\ "status" \in listeners
  /\ nPost < MaxPost
  /\ Commit(onStatus(Closure), "status", "-", NoServiceError, "none")
  /\ nPost' = nPost + 1
  /\ UNCHANGED <<listeners, setup, openTimer, nSend, nData, nTrig, firstTrigger>>
  /\ BridgeOnly

\* the task scheduled by setTimeout(..., 0) runs
OpenTimerFires ==
  /\ openTimer
  /\ Commit(callOnOpen(Closure), "timer", "-", NoServiceError, "none")
  /\ openTimer' = FALSE
  /\ UNCHANGED <<listeners, setup, nSend, nData, nTrig, nPost, firstTrigger>>
  /\ BridgeOnly

\* =============================================================== stub cache

\* Token | null.  A token carries its type, its user and its authHeaders, of
\* which only Authorization matters here; "undefined" is a header that the
\* token does not have.
NullToken == [type |-> "null", user |-> "null", Authorization |-> "null"]
Tokens ==
  [type : {"OAuth", "FirstParty"}, user : {"u1", "u2"},
   Authorization : {"undefined", "Bearer a", "Bearer b"}]
TokenOrNull == Tokens \cup {NullToken}

\* private cachedStub: CachedStub | null = null
CachedNull == [stub |-> 0, token |-> NullToken]

\* tokenA && tokenA.authHeaders['Authorization']
AuthorizationOf(token) ==
  IF token = NullToken THEN "null" ELSE token.Authorization

\* sameToken comparing the token objects instead of the header
sameToken_identity(tokenA, tokenB) == tokenA = tokenB

\* sameToken
sameToken(tokenA, tokenB) == AuthorizationOf(tokenA) = AuthorizationOf(tokenB)

\* createHeaders: asserts the token type, then builds the credentials
createHeaders(token) ==
  IF token = NullToken \/ token.type = "OAuth"
  THEN [raised |-> "none", credentials |-> token]
  ELSE [raised |-> "assert", credentials |-> NullToken]

\* The connection's cache as a call reads and writes it
Cache == [cachedStub |-> cachedStub, stubsBuilt |-> stubsBuilt]

CallOutcome(c, raised, stub) ==
  [cachedStub |-> c.cachedStub, stubsBuilt |-> c.stubsBuilt,
   raised |-> raised, stub |-> stub]

\* ensureActiveStub storing the cache entry before the stub is built
ensureActiveStub_eager(c, token, ctorThrows) ==
  IF c.cachedStub = CachedNull \/ ~sameToken(c.cachedStub.token, token)
  THEN LET headers == createHeaders(token)
           entry == [cachedStub |-> [stub |-> 0, token |-> token],
                     stubsBuilt |-> c.stubsBuilt] IN
       IF headers.raised # "none" THEN CallOutcome(entry, headers.raised, 0)
       ELSE IF ctorThrows THEN CallOutcome(entry, "ctor", 0)
       ELSE LET built == c.stubsBuilt + 1 IN
            CallOutcome([cachedStub |-> [stub |-> built, token |-> token],
                         stubsBuilt |-> built], "none", built)
  ELSE CallOutcome(c, "none", c.cachedStub.stub)

\* ensureActiveStub; `ctorThrows`: new this.firestore.Firestore(...) throws
ensureActiveStub(c, token, ctorThrows) ==
  IF c.cachedStub = CachedNull \/ ~sameToken(c.cachedStub.token, token)
  THEN LET headers == createHeaders(token) IN
       IF headers.raised # "none" THEN CallOutcome(c, headers.raised, 0)
       ELSE IF ctorThrows THEN CallOutcome(c, "ctor", 0)
       ELSE LET built == c.stubsBuilt + 1 IN
            CallOutcome([cachedStub |-> [stub |-> built, token |-> token],
                         stubsBuilt |-> built], "none", built)
  ELSE CallOutcome(c, "none", c.cachedStub.stub)

NoCall == [token |-> NullToken, raised |-> "nocall", stub |-> 0]

\* getRpcCallable(rpcName, token) -> ensureActiveStub(token)
EnsureActiveStub ==
  /\ nCalls < MaxCalls
  /\ \E token \in TokenOrNull, ctorThrows \in BOOLEAN :
       LET r == ensureActiveStub(Cache, token, ctorThrows) IN
       /\ cachedStub' = r.cachedStub
       /\ stubsBuilt' = r.stubsBuilt
       /\ lastCall' = [token |-> token, raised |-> r.raised, stub |-> r.stub]
  /\ nCalls' = nCalls + 1
  /\ StubOnly

\* ================================================================ invokeRPC

Pending == [state |-> "pending", value |-> "-", err |-> NoError]
NotInvoked == [state |-> "none", value |-> "-", err |-> NoError]

\* Promise resolve / reject: only a pending promise changes state
resolve(p, value) ==
  IF p.state = "pending"
  THEN [state |-> "resolved", value |-> value, err |-> NoError]
  ELSE p
reject(p, err) ==
  IF p.state = "pending"
  THEN [state |-> "rejected", value |-> "-", err |-> err]
  ELSE p

\* nodePromise's NodeCallback: (error, value) => error ? reject : resolve
nodeCallback(p, error, value) ==
  IF error # NoError THEN reject(p, error) ELSE resolve(p, value)

\* the unary callback without its grpcError branch
rpcCallback_noErrorBranch(p, grpcError, value) == nodeCallback(p, NoError, value)

\* the callback invokeRPC hands to the unary rpc
rpcCallback(p, grpcError, value) ==
  IF grpcError # NoServiceError
  THEN nodeCallback(p, FirestoreError(mapCodeFromRpcCode(grpcError.code),
                                      grpcError.message), "undefined")
  ELSE nodeCallback(p, NoError, value)

NoCallback == [grpcError |-> NoServiceError, value |-> "-"]

\* invokeRPC: calls rpc(request, callback) and returns the promise
InvokeRPC ==
  /\ rpcPromise = NotInvoked
  /\ rpcPromise' = Pending
  /\ UNCHANGED <<rpcSettles, nCallbacks, lastCallback>>
  /\ RpcOnly

\* the transport invokes the callback
RpcCallback ==
  /\ rpcPromise # NotInvoked
  /\ nCallbacks < MaxCallbacks
  /\ \E grpcError \in ServiceErrors \cup {NoServiceError},
        value \in Resps \cup {"undefined"} :
       /\ rpcPromise' = rpcCallback(rpcPromise, grpcError, value)
       /\ lastCallback' = [grpcError |-> grpcError, value |-> value]
  /\ rpcSettles' = IF rpcPromise' # rpcPromise THEN rpcSettles + 1
                   ELSE rpcSettles
  /\ nCallbacks' = nCallbacks + 1
  /\ RpcOnly

\* ======================================================= invokeStreamingRPC

\* results.unshift(response)
push_front(rs, response) == <<response>> \o rs

\* results.push(response)
push(rs, response) == Append(rs, response)

\* responseDeferred.resolve(results) hands over the array itself, so the
\* value of a resolved promise is whatever `results` holds
ResolvedValue == results

\* invokeStreamingRPC: calls rpc(request), registers the listeners, returns
InvokeStreamingRPC ==
  /\ responseDeferred = NotInvoked
  /\ responseDeferred' = Pending
  /\ results' = <<>>
  /\ UNCHANGED <<delivered, streamLog, lastStreamError>>
  /\ StreamingOnly

\* stream.on('data')
StreamData ==
  /\ responseDeferred # NotInvoked
  /\ Len(streamLog) < MaxStreamEvents
  /\ \E response \in Resps :
       /\ results' = push(results, response)
       /\ delivered' = Append(delivered, response)
  /\ streamLog' = Append(streamLog, "data")
  /\ UNCHANGED <<responseDeferred, lastStreamError>>
  /\ StreamingOnly

\* stream.on('end')
StreamEnd ==
  /\ responseDeferred # NotInvoked
  /\ Len(streamLog) < MaxStreamEvents
  /\ responseDeferred' = resolve(responseDeferred, "results")
  /\ streamLog' = Append(streamLog, "end")
  /\ UNCHANGED <<results, delivered, lastStreamError>>
  /\ StreamingOnly

\* the 'error' listener handing over what was accumulated so far
StreamError_partial ==
  /\ responseDeferred # NotInvoked
  /\ Len(streamLog) < MaxStreamEvents
  /\ \E grpcError \in ServiceErrors :
       /\ responseDeferred' = resolve(responseDeferred, "results")
       /\ lastStreamError' = grpcError
  /\ streamLog' = Append(streamLog, "error")
  /\ UNCHANGED <<results, delivered>>
  /\ StreamingOnly

\* stream.on('error')
StreamError ==
  /\ responseDeferred # NotInvoked
  /\ Len(streamLog) < MaxStreamEvents
  /\ \E grpcError \in ServiceErrors :
       /\ responseDeferred' =
            reject(responseDeferred,
                   FirestoreError(mapCodeFromRpcCode(grpcError.code),
                                  grpcError.message))
       /\ lastStreamError' = grpcError
  /\ streamLog' = Append(streamLog, "error")
  /\ UNCHANGED <<results, delivered>>
  /\ StreamingOnly

\* ================================== several streams on the same connection

\* the streams a connection may have open in this model
BridgeIds == {1, 2}

\* a stream openStream has not yet returned
NoBridge ==
  [exists |-> FALSE, stub |-> 0, closed |-> FALSE, openTimer |-> FALSE,
   effects |-> <<>>, raised |-> "none"]

\* what openStream leaves behind for the stream it returns: its own `closed`,
\* its own pending open task, the stub it was opened on
NewBridge(stub) ==
  [exists |-> TRUE, stub |-> stub, closed |-> FALSE, openTimer |-> TRUE,
   effects |-> <<>>, raised |-> "none"]

\* the closure of stream b as a handler of b finds it
ClosureOf(b) == [bridges[b] EXCEPT !.raised = "none"]

\* `closed` declared once for the connection instead of once per openStream
store_sharedClosed(bs, b, s) ==
  [x \in BridgeIds |->
     IF x = b THEN s
     ELSE IF bs[x].exists THEN [bs[x] EXCEPT !.closed = s.closed]
     ELSE bs[x]]

\* a handler of stream b writes its own closure and no other
store(bs, b, s) == [bs EXCEPT ![b] = s]

MultiStep(b) ==
  /\ nMulti < MaxMultiSteps
  /\ nMulti' = nMulti + 1
  /\ lastBridge' = b

\* openStream(rpcName, token): getRpcCallable, then a new stream
MultiOpenStream ==
  /\ \E b \in BridgeIds, token \in TokenOrNull, ctorThrows \in BOOLEAN :
       LET r == ensureActiveStub(Cache, token, ctorThrows) IN
       /\ ~bridges[b].exists
       /\ \A x \in BridgeIds : x < b => bridges[x].exists
       /\ cachedStub' = r.cachedStub
       /\ stubsBuilt' = r.stubsBuilt
       /\ IF r.raised = "none"
          THEN bridges' = store(bridges, b, NewBridge(r.stub)) /\ MultiStep(b)
          ELSE bridges' = bridges /\ MultiStep(0)
  /\ MultiOnly

\* invokeRPC / invokeStreamingRPC with a token: getRpcCallable only
MultiGetRpcCallable ==
  /\ \E token \in TokenOrNull, ctorThrows \in BOOLEAN :
       LET r == ensureActiveStub(Cache, token, ctorThrows) IN
       /\ cachedStub' = r.cachedStub
       /\ stubsBuilt' = r.stubsBuilt
  /\ MultiStep(0)
  /\ UNCHANGED bridges
  /\ MultiOnly

\* send on stream b
MultiSend ==
  /\ \E b \in BridgeIds, m \in Msgs, throws \in BOOLEAN :
       /\ bridges[b].exists
       /\ bridges' = store(bridges, b, sendFn(ClosureOf(b), m, throws))
       /\ MultiStep(b)
  /\ UNCHANGED <<cachedStub, stubsBuilt>>
  /\ MultiOnly

\* close on stream b
MultiClose ==
  /\ \E b \in BridgeIds, nested \in Nested :
       /\ bridges[b].exists
       /\ bridges' = store(bridges, b, close(ClosureOf(b), NoError, nested))
       /\ MultiStep(b)
  /\ UNCHANGED <<cachedStub, stubsBuilt>>
  /\ MultiOnly

\* what a listener of stream b makes of an event of its transport
MultiListener(b) ==
  \/ \E m \in Resps : bridges' = store(bridges, b, onData(ClosureOf(b), m))
  \/ \E nested \in Nested :
       bridges' = store(bridges, b, onEnd(ClosureOf(b), nested))
  \/ \E e \in ServiceErrors, nested \in Nested :
       bridges' = store(bridges, b, onError(ClosureOf(b), e, nested))
  \/ bridges' = store(bridges, b, onFinish(ClosureOf(b)))
  \/ bridges' = store(bridges, b, onStatus(ClosureOf(b)))

\* the transport of stream b emits 'data', 'end', 'error', 'finish' or
\* 'status'
MultiEvent ==
  /\ \E b \in BridgeIds :
       /\ bridges[b].exists
       /\ MultiListener(b)
       /\ MultiStep(b)
  /\ UNCHANGED <<cachedStub, stubsBuilt>>
  /\ MultiOnly

\* the open task of stream b runs
MultiOpenTimerFires ==
  /\ \E b \in BridgeIds :
       /\ bridges[b].exists
       /\ bridges[b].openTimer
       /\ bridges' =
            store(bridges, b,
                  [callOnOpen(ClosureOf(b)) EXCEPT !.openTimer = FALSE])
       /\ MultiStep(b)
  /\ UNCHANGED <<cachedStub, stubsBuilt>>
  /\ MultiOnly

\* =========================================================== specifications

Init ==
  /\ listeners = {}
  /\ setup = <<>>
  /\ closed = FALSE
  /\ openTimer = FALSE
  /\ effects = <<>>
  /\ nSend = 0 /\ nData = 0 /\ nTrig = 0 /\ nPost = 0
  /\ firstTrigger = "none"
  /\ lastOp = [op |-> "none", raised |-> "none", msg |-> "-",
               grpcError |-> NoServiceError, nested |-> "none"]
  /\ cachedStub = CachedNull
  /\ stubsBuilt = 0
  /\ nCalls = 0
  /\ lastCall = NoCall
  /\ rpcPromise = NotInvoked
  /\ rpcSettles = 0
  /\ nCallbacks = 0
  /\ lastCallback = NoCallback
  /\ results = <<>>
  /\ responseDeferred = NotInvoked
  /\ delivered = <<>>
  /\ streamLog = <<>>
  /\ lastStreamError = NoServiceError
  /\ bridges = [b \in BridgeIds |-> NoBridge]
  /\ lastBridge = 0
  /\ nMulti = 0

NextBridge ==
  \/ OpenStream
  \/ Send
  \/ Close
  \/ Data
  \/ End
  \/ Error
  \/ Finish
  \/ Status
  \/ OpenTimerFires

NextStub == EnsureActiveStub

NextRpc ==
  \/ InvokeRPC
  \/ RpcCallback

NextStreaming ==
  \/ InvokeStreamingRPC
  \/ StreamData
  \/ StreamEnd
  \/ StreamError

NextMulti ==
  \/ MultiOpenStream
  \/ MultiGetRpcCallable
  \/ MultiSend
  \/ MultiClose
  \/ MultiEvent
  \/ MultiOpenTimerFires

SpecBridge == Init /\ [][NextBridge]_vars
SpecStub == Init /\ [][NextStub]_vars
SpecRpc == Init /\ [][NextRpc]_vars
SpecStreaming == Init /\ [][NextStreaming]_vars
SpecMulti == Init /\ [][NextMulti]_vars

\* =================================================================== claims

IsClose(e) == e.kind = "close"
IsOpen(e) == e.kind = "open"
CloseEffects == SelectSeq(effects, IsClose)
OpenEffects == SelectSeq(effects, IsOpen)
CallerCallbacks == {"open", "message", "close"}
Positions == 1..Len(effects)

\* C1: over every interleaving of close() calls, 'end' events and 'error'
\* events on one bridge, callOnClose is invoked at most once, and it has been
\* invoked exactly once as soon as one of those triggers has occurred.
C1_CloseNotifiedOnce ==
  /\ Len(CloseEffects) <= 1
  /\ nTrig > 0 => Len(CloseEffects) = 1

C1_Witness == nTrig = 2 /\ Len(CloseEffects) = 1

\* C2: once the close notification has been delivered to the caller, no
\* further caller callback (open, message, close) is delivered.
C2_NothingAfterClose ==
  \A i \in Positions, j \in Positions :
    (i < j /\ effects[i].kind = "close") => effects[j].kind \notin CallerCallbacks

\* C3: the open notification is delivered at most once and every message
\* delivered to the caller follows it, whatever the order of 'data' events
\* and the deferred open task.
C3_OpenBeforeMessages ==
  /\ Len(OpenEffects) <= 1
  /\ \A j \in Positions :
       effects[j].kind = "message" =>
         \E i \in Positions : i < j /\ effects[i].kind = "open"

\* C4: a send issued when the bridge is Closed does not raise and never
\* reaches the transport write: no write follows the close notification.
C4_SendAfterCloseDropped ==
  /\ (lastOp.op = "send" /\ closed) =>
       /\ lastOp.raised = "none"
       /\ effects[Len(effects)].kind # "write"
  /\ \A i \in Positions, j \in Positions :
       (i < j /\ effects[i].kind = "close") => effects[j].kind # "write"

C4_Witness == lastOp.op = "send" /\ closed /\ nSend = 2

\* C5: a 'data' event is delivered to the caller's message callback if and
\* only if the bridge is Active when it arrives; one that arrives after the
\* bridge became Closed is dropped, raises nothing and leaves the state as
\* it was.
C5_DataOnlyWhileActive ==
  [][(nData' = nData + 1) =>
       /\ lastOp'.raised = "none"
       /\ closed' = closed
       /\ effects' = IF closed THEN effects
                     ELSE Append(effects, MessageEffect(lastOp'.msg))]_vars

C5_Witness == lastOp.op = "data" /\ closed /\ nData = 1

\* C6: an 'error' with code X arriving while the bridge is Active closes the
\* bridge and the close notification carries the domain error of kind
\* mapCodeFromRpcCode(X) with the transport error's message; when close() or
\* 'end' was the first trigger the close notification carries no error and a
\* later 'error' is never surfaced.
C6_ErrorTranslated ==
  /\ (lastOp.op = "error" /\ nTrig = 1) =>
       /\ closed
       /\ CloseEffects =
            <<CloseEffect(FirestoreError(
                            mapCodeFromRpcCode(lastOp.grpcError.code),
                            lastOp.grpcError.message))>>
       /\ CloseEffects[1].err # NoError
  /\ firstTrigger \in {"close", "end"} =>
       /\ closed
       /\ CloseEffects = <<CloseEffect(NoError)>>

C6_Witness == lastOp.op = "error" /\ nTrig = 1 /\ closed

\* Token equivalence as the interface states it: both absent, or both
\* present with equal Authorization header values.
Equivalent(a, b) ==
  \/ a = NullToken /\ b = NullToken
  \/ a # NullToken /\ b # NullToken /\ a.Authorization = b.Authorization

\* C7: a call of ensureActiveStub that returns has constructed a new handle
\* if and only if no client was cached or the requested token is not
\* equivalent to the cached token (a call can only throw in that case);
\* otherwise it returns the cached handle and leaves the cache alone, so
\* consecutive equivalent tokens get the same handle instance. The cache
\* holds the most recently built handle and nothing else.
C7_RebuildIffTokenChanged ==
  [][(nCalls' = nCalls + 1) =>
       LET token == lastCall'.token
           need == cachedStub = CachedNull \/ ~Equivalent(cachedStub.token, token)
           built == stubsBuilt' = stubsBuilt + 1
       IN /\ built \/ stubsBuilt' = stubsBuilt
          /\ lastCall'.raised = "none" => (built <=> need)
          /\ lastCall'.raised # "none" => need
          /\ built => /\ cachedStub' = [stub |-> stubsBuilt', token |-> token]
                      /\ lastCall'.stub = stubsBuilt'
          /\ ~need => /\ cachedStub' = cachedStub
                      /\ lastCall'.stub = cachedStub.stub
          /\ (lastCall.raised = "none" /\ Equivalent(lastCall.token, token)) =>
               lastCall'.stub = lastCall.stub
          /\ cachedStub' # CachedNull => cachedStub'.stub = stubsBuilt']_vars

C7_Witness ==
  /\ nCalls = 3
  /\ stubsBuilt = 2
  /\ lastCall.raised = "none"
  /\ lastCall.token # NullToken
  /\ cachedStub.token # lastCall.token
  /\ cachedStub.stub = lastCall.stub

\* C8: when building the handle fails (the token type assertion of
\* createHeaders, or the stub constructor), the call throws and the cache is
\* exactly what it was before the call.
C8_FailedBuildKeepsCache ==
  [][(nCalls' = nCalls + 1) =>
       LET token == lastCall'.token
           need == cachedStub = CachedNull \/ ~Equivalent(cachedStub.token, token)
       IN /\ (need /\ token # NullToken /\ token.type # "OAuth") =>
               lastCall'.raised = "assert"
          /\ lastCall'.raised # "none" =>
               /\ cachedStub' = cachedStub
               /\ stubsBuilt' = stubsBuilt]_vars

C8_Witness ==
  /\ lastCall.raised = "ctor"
  /\ cachedStub # CachedNull
  /\ ~Equivalent(cachedStub.token, lastCall.token)

\* C9: the promise of invokeRPC settles exactly once: the first transport
\* callback resolves it with the response value, or rejects it with the
\* domain error of kind mapCodeFromRpcCode(X) for an error of code X; later
\* callbacks change nothing.
C9_SettlesOnce ==
  [][(nCallbacks' = nCallbacks + 1) =>
       LET e == lastCallback'.grpcError IN
       /\ rpcSettles' <= 1
       /\ rpcPromise'.state \in {"resolved", "rejected"}
       /\ IF rpcPromise.state = "pending"
          THEN /\ rpcSettles' = 1
               /\ rpcPromise' =
                    IF e = NoServiceError
                    THEN [state |-> "resolved", value |-> lastCallback'.value,
                          err |-> NoError]
                    ELSE [state |-> "rejected", value |-> "-",
                          err |-> FirestoreError(mapCodeFromRpcCode(e.code),
                                                 e.message)]
          ELSE rpcPromise' = rpcPromise]_vars

C9_Witness ==
  /\ nCallbacks = 2
  /\ rpcPromise.state = "rejected"
  /\ lastCallback.grpcError = NoServiceError
  /\ rpcSettles = 1

\* the stream emitted only 'data' events and then one 'end'
CleanEnd ==
  /\ Len(streamLog) >= 1
  /\ streamLog[Len(streamLog)] = "end"
  /\ \A i \in 1..(Len(streamLog) - 1) : streamLog[i] = "data"

\* C10: when the server stream delivers r1..rn and then a clean 'end', the
\* promise of invokeStreamingRPC resolves with exactly [r1..rn] in delivery
\* order, the empty sequence for n = 0.
C10_ResolvesInOrder ==
  CleanEnd =>
    /\ responseDeferred.state = "resolved"
    /\ ResolvedValue = delivered

C10_Witness ==
  /\ CleanEnd
  /\ Len(delivered) = 2
  /\ delivered[1] # delivered[2]
  /\ responseDeferred.state = "resolved"

\* the stream's terminal events, 'end' and 'error', in order
IsTerminal(kind) == kind \in {"end", "error"}
Terminals(log) == SelectSeq(log, IsTerminal)

\* the position in the log of its first terminal event
FirstTerminalAt(log) ==
  CHOOSE k \in 1..Len(log) :
    IsTerminal(log[k]) /\ \A i \in 1..(k - 1) : ~IsTerminal(log[i])

\* C11: in invokeStreamingRPC the first terminal signal alone determines the
\* outcome, and nothing is accumulated after it: the sequence holds exactly
\* the responses that came before the first 'end' or 'error'.
C11_NoAccumulationAfterTerminal ==
  Terminals(streamLog) # <<>> =>
    /\ responseDeferred.state =
         IF Terminals(streamLog)[1] = "end" THEN "resolved" ELSE "rejected"
    /\ Len(results) = FirstTerminalAt(streamLog) - 1

\* C12: a stream 'error' with code X that comes before any 'end' rejects the
\* promise with the domain error of kind mapCodeFromRpcCode(X) and what was
\* accumulated is never handed over: the promise stays rejected, also when
\* an 'end' follows.
C12_ErrorRejects ==
  [][/\ (Terminals(streamLog') # <<>> /\ Terminals(streamLog')[1] = "error") =>
          responseDeferred'.state = "rejected"
     /\ (streamLog' = Append(streamLog, "error") /\ Terminals(streamLog) = <<>>) =>
          responseDeferred' =
            [state |-> "rejected", value |-> "-",
             err |-> FirestoreError(mapCodeFromRpcCode(lastStreamError'.code),
                                    lastStreamError'.message)]
     /\ responseDeferred.state = "rejected" => responseDeferred' = responseDeferred
    ]_vars

C12_Witness ==
  /\ Len(streamLog) = 3
  /\ streamLog[1] = "data"
  /\ streamLog[2] = "error"
  /\ streamLog[3] = "end"
  /\ responseDeferred.state = "rejected"

IsEnd(e) == e.kind = "end"
IsWrite(e) == e.kind = "write"
EndEffects == SelectSeq(effects, IsEnd)
WriteEffects == SelectSeq(effects, IsWrite)

\* C13: when the transport write throws in a send on an Active bridge, the
\* exception reaches the caller of send and nothing else happens: the bridge
\* stays Active, no close notification, no end; a send that does not throw,
\* also a later one, is forwarded.
C13_WriteFailureRethrown ==
  [][(nSend' = nSend + 1 /\ ~closed) =>
       /\ closed' = FALSE
       /\ lastOp'.raised \in {"none", "write"}
       /\ effects' = IF lastOp'.raised = "write" THEN effects
                     ELSE Append(effects, WriteEffect(lastOp'.msg))]_vars

C13_Witness ==
  /\ lastOp.op = "send"
  /\ lastOp.raised = "none"
  /\ nSend = 2
  /\ Len(WriteEffects) = 1
  /\ ~closed

\* C14: a 'finish' or 'status' event that arrives while the bridge is Active
\* fails the assertion and is no close trigger (the bridge stays Active,
\* nothing is notified); one that arrives when the bridge is Closed does
\* nothing.
C14_PostCloseSignals ==
  [][(nPost' = nPost + 1) =>
       /\ lastOp'.op \in {"finish", "status"}
       /\ lastOp'.raised = IF closed THEN "none" ELSE "assert"
       /\ closed' = closed
       /\ effects' = effects]_vars

C14_Witness == lastOp.op = "finish" /\ lastOp.raised = "assert" /\ ~closed

\* C15: a send on an Active bridge is forwarded to the transport write at
\* once, whether or not the open notification has been delivered.
C15_SendBeforeOpen ==
  (lastOp.op = "send" /\ ~closed /\ lastOp.raised = "none") =>
    /\ effects # <<>>
    /\ effects[Len(effects)] = WriteEffect(lastOp.msg)

C15_Witness ==
  /\ lastOp.op = "send"
  /\ lastOp.raised = "none"
  /\ ~closed
  /\ openTimer
  /\ OpenEffects = <<>>
  /\ Len(WriteEffects) = 1

\* C16: all five listeners are registered before the caller can see the open
\* notification: openStream returns with the listeners registered, the open
\* task pending and nothing delivered.
C16_ListenersBeforeOpen ==
  /\ lastOp.op = "openStream" =>
       /\ listeners = AllListeners
       /\ openTimer
       /\ effects = <<>>
  /\ (openTimer \/ OpenEffects # <<>>) =>
       /\ listeners = AllListeners
       /\ setup[Len(setup)] = "setTimeout"
       /\ \A l \in AllListeners :
            \E i \in 1..(Len(setup) - 1) : setup[i] = "on:" \o l

C16_Witness ==
  /\ lastOp.op = "timer"
  /\ effects = <<OpenEffect>>
  /\ listeners = AllListeners

\* C17: grpcStream.end() is called exactly once, at the Active to Closed
\* transition and right after the close notification, whichever trigger
\* closed the bridge; never while the bridge is Active and never again.
C17_EndOnceAtClose ==
  /\ Len(EndEffects) = IF closed THEN 1 ELSE 0
  /\ \A j \in Positions :
       effects[j].kind = "end" => (j > 1 /\ effects[j - 1].kind = "close")

C17_Witness ==
  /\ nTrig = 2
  /\ firstTrigger = "error"
  /\ Len(EndEffects) = 1

\* C19: the bridge is already Closed while the close callback runs: a close()
\* or send() made from inside it does nothing, so the transition produces the
\* close notification and one end and nothing else.
C19_ReentrantCallsInert ==
  [][(nTrig' = nTrig + 1) =>
       /\ closed'
       /\ effects' =
            IF closed THEN effects
            ELSE effects \o <<effects'[Len(effects) + 1], EndEffect>>
       /\ ~closed => effects'[Len(effects) + 1].kind = "close"]_vars

C19_Witness == lastOp.nested = "close" /\ nTrig = 1 /\ closed

\* C20: a 'finish' that the transport emits in response to an end() finds the
\* bridge Closed, so its assertion holds: end() is only ever called with the
\* bridge Closed.
C20_FinishAfterEndHolds ==
  /\ EndEffects # <<>> => closed
  /\ (lastOp.op = "finish" /\ EndEffects # <<>>) => lastOp.raised = "none"

C20_Witness == lastOp.op = "finish" /\ EndEffects # <<>> /\ closed

\* C18: a call or event on one stream, and a rebuild of the cached stub by a
\* later call with another token, leave every other open stream as it was:
\* its `closed` is unchanged and nothing is delivered on it.
C18_BridgesIndependent ==
  [][\A b \in BridgeIds :
       (bridges[b].exists /\ lastBridge' # b) =>
         /\ bridges'[b].closed = bridges[b].closed
         /\ bridges'[b].effects = bridges[b].effects
         /\ bridges'[b].openTimer = bridges[b].openTimer]_vars

C18_Witness ==
  /\ bridges[1].exists
  /\ bridges[2].exists
  /\ bridges[1].stub # bridges[2].stub
  /\ bridges[2].closed
  /\ ~bridges[1].closed
  /\ lastBridge = 2
====
